---- MODULE Spec2Model ----
(***************************************************************************)
(* Model of src/python/mvn_ext_each.py: the glob filter (GlobFilter), the  *)
(* path normaliser (unix_path) and the project walk (Main.__find with      *)
(* Main.__prune, driven by os.walk(topdown, followlinks=True)).            *)
(*                                                                         *)
(* Strings are sequences of one-character strings, so that globbing,       *)
(* splitting and joining are computed character by character.              *)
(***************************************************************************)
EXTENDS Integers, Sequences, FiniteSets, TLC

(***************************************************************************)
(* Bounds of the model.                                                    *)
(***************************************************************************)
\* longest value tested by a GlobFilter in FilterSpec
MaxLen == 2
\* longest glob pattern in FilterSpec
MaxGlobLen == 1
\* most patterns of a GlobFilter in FilterSpec, include and exclude together
MaxGlobs == 2
\* longest list of subdirectory names handed to __prune in PruneSpec
MaxDirs == 3
\* most directories in a directory tree (the root included)
MaxNodes == 3
\* most directories whose listing fails
MaxErrors == 1
\* most directories in a directory structure with symlinks (the root included)
MaxLinkNodes == 1
\* most directory symlinks in a directory structure
MaxLinks == 1
\* most symlinks the platform follows while resolving one path (SYMLOOP_MAX)
MaxLoop == 2

(***************************************************************************)
(* Application exit codes.                                                 *)
(***************************************************************************)
EX_OK == 0
EX_SOFTWARE == 70

(***************************************************************************)
(* The state.  One run of the find command:                                *)
(*   args      the parsed command line (dir, with_root, prune, include,    *)
(*             exclude)                                                    *)
(*   platform  the platform the program runs on                            *)
(*   fs        the file system                                             *)
(*   pc        "walk" while __find runs, "done" when the command returned  *)
(*   stack     the directories os.walk still has to list, the next first;  *)
(*             each with                                                   *)
(*               path  the names that lead to it from the root directory,  *)
(*                     symlink names included                              *)
(*               root  the path string os.walk has built for it            *)
(*               dir   the directory the file system resolves it to        *)
(*               hops  the symlinks followed on the way                    *)
(*   output    the strings __find has yielded                              *)
(*   warnings  the directories handed to the onerror callback              *)
(*   exitCode  the exit codes Main.run has returned: none, then one        *)
(* and, as history of the walk,                                            *)
(*   visited   the paths os.walk has yielded to the loop of __find         *)
(*   listed    the directories these paths resolved to                     *)
(*   yielded   the paths __find has yielded                                *)
(*   pushed    the paths os.walk was left to descend into                  *)
(*   removed   the paths __prune took from dirs                            *)
(* A GlobFilter applied to a value (FilterSpec):                           *)
(*   fpc       "new" before and "called" after the call                    *)
(*   fvalue    the value tested                                            *)
(*   ffilter   the filter                                                  *)
(*   fresult   what the call returned                                      *)
(* __prune applied to a list of names (PruneSpec):                         *)
(*   ppc       "new" before and "pruned" after the call                    *)
(*   pdirs     the list handed in                                          *)
(*   pprune    the prune patterns                                          *)
(*   presult   the list when the call has returned                         *)
(* The variables of the specifications that are not running are "off".     *)
(***************************************************************************)
VARIABLES fpc, fvalue, ffilter, fresult

VARIABLES ppc, pdirs, pprune, presult

VARIABLES args, platform, fs, pc, stack, output, warnings, exitCode,
          visited, listed, yielded, pushed, removed

fvars == <<fpc, fvalue, ffilter, fresult>>

pvars == <<ppc, pdirs, pprune, presult>>

wvars == <<args, platform, fs, pc, stack, output, warnings, exitCode,
           visited, listed, yielded, pushed, removed>>

vars == <<fvars, pvars, wvars>>

(***************************************************************************)
(* Sequences and strings.                                                  *)
(***************************************************************************)
Range(s) == {s[i] : i \in DOMAIN s}

Front(s) == SubSeq(s, 1, Len(s) - 1)

Last(s) == s[Len(s)]

IsPrefix(p, s) == Len(p) <= Len(s) /\ SubSeq(s, 1, Len(p)) = p

IsProperPrefix(p, s) == Len(p) < Len(s) /\ SubSeq(s, 1, Len(p)) = p

\* the sequences over S of length lo .. hi
SeqsOf(S, lo, hi) == UNION {[1..n -> S] : n \in lo..hi}

\* the orders in which the elements of S can be listed
Perms(S) == {s \in [1..Cardinality(S) -> S] : \A i, j \in DOMAIN s : i # j => s[i] # s[j]}

\* list.remove by position: del s[i]
DelAt(s, i) == SubSeq(s, 1, i - 1) \o SubSeq(s, i + 1, Len(s))

\* the name of the project marker file
PomXml == <<"p", "o", "m", ".", "x", "m", "l">>

(***************************************************************************)
(* Platforms: os.sep, os.pathsep and os.altsep of posixpath and ntpath.    *)
(***************************************************************************)
Posix == [name |-> "posix", sep |-> "/", pathsep |-> ":", altsep |-> "/"]

Nt == [name |-> "nt", sep |-> "\\", pathsep |-> ";", altsep |-> "/"]

Platforms == {Posix, Nt}

(***************************************************************************)
(* fnmatch.fnmatch(value, glob) for globs made of literal characters, '*'  *)
(* and '?': the whole value must match; no character is special in the     *)
(* value (a leading dot and a separator match like any other character).   *)
(***************************************************************************)
RECURSIVE fnmatch(_, _)
fnmatch(value, glob) ==
    IF glob = <<>> THEN value = <<>>
    ELSE IF Head(glob) = "*"
         THEN fnmatch(value, Tail(glob))
              \/ (value # <<>> /\ fnmatch(Tail(value), glob))
    ELSE IF Head(glob) = "?"
         THEN value # <<>> /\ fnmatch(Tail(value), Tail(glob))
    ELSE value # <<>> /\ Head(value) = Head(glob)
         /\ fnmatch(Tail(value), Tail(glob))

(***************************************************************************)
(* GlobFilter.  An optional pattern list is a record: None is the absent   *)
(* list, Some(l) the present list l (tuple(include) in __init__).          *)
(***************************************************************************)
None == [present |-> FALSE, globs |-> <<>>]

Some(l) == [present |-> TRUE, globs |-> l]

GlobFilter(include, exclude) == [include |-> include, exclude |-> exclude]

\* the for loop of GlobFilter.matches from the pattern at position i on
RECURSIVE matchesFrom(_, _, _)
matchesFrom(value, globs, i) ==
    IF i > Len(globs) THEN FALSE
    ELSE IF fnmatch(value, globs[i]) THEN TRUE
    ELSE matchesFrom(value, globs, i + 1)

matchesNoDefault(value, glob_list, default) ==
    IF ~glob_list.present THEN FALSE ELSE matchesFrom(value, glob_list.globs, 1)

matches(value, glob_list, default) ==
    IF ~glob_list.present THEN default ELSE matchesFrom(value, glob_list.globs, 1)

\* GlobFilter.__call__
Call(self, value) ==
    matches(value, self.include, TRUE) /\ ~matches(value, self.exclude, FALSE)

(***************************************************************************)
(* FilterSpec: a GlobFilter is applied to a value.                         *)
(***************************************************************************)
FilterChars == {"a", "b"}

GlobChars == {"a", "*", "?"}

FilterValues == SeqsOf(FilterChars, 0, MaxLen)

FilterGlobs == SeqsOf(GlobChars, 0, MaxGlobLen)

\* the optional pattern lists of at most n patterns
FilterLists(n) == {None} \cup {Some(l) : l \in SeqsOf(FilterGlobs, 0, n)}

Filters ==
    UNION {{GlobFilter(i, x) : i \in FilterLists(n), x \in FilterLists(MaxGlobs - n)} :
           n \in 0..MaxGlobs}

FilterIdle ==
    /\ fpc = "off"
    /\ fvalue = <<>>
    /\ ffilter = GlobFilter(None, None)
    /\ fresult = FALSE

FilterStart ==
    /\ fpc = "new"
    /\ fvalue \in FilterValues
    /\ ffilter \in Filters
    /\ fresult = FALSE

FilterCall ==
    /\ fpc = "new"
    /\ fresult' = Call(ffilter, fvalue)
    /\ fpc' = "called"
    /\ UNCHANGED <<fvalue, ffilter>>
    /\ UNCHANGED <<pvars, wvars>>

FilterNext == FilterCall

(***************************************************************************)
(* Main.__prune: the loop deletes from the list it iterates; the list      *)
(* iterator moves on to position index + 1 of the shortened list.          *)
(***************************************************************************)
RECURSIVE pruneFrom(_, _, _)
pruneFrom(dirs, passing, index) ==
    IF index > Len(dirs) THEN dirs
    ELSE IF ~Call(passing, dirs[index])
         THEN pruneFrom(DelAt(dirs, index), passing, index + 1)
    ELSE pruneFrom(dirs, passing, index + 1)

\* the test of __prune negated: the names that pass are the ones deleted
__pruneNegated(dirs, passing) == SelectSeq(dirs, LAMBDA name : ~Call(passing, name))

__prune(dirs, passing) == pruneFrom(dirs, passing, 1)

(***************************************************************************)
(* PruneSpec: __prune is applied to a list of distinct directory names.    *)
(***************************************************************************)
PruneNames == {<<"a">>, <<"b">>, <<"c">>}

PruneGlobs == {<<"a">>, <<"b">>, <<"?">>}

PruneDirLists == UNION {Perms(S) : S \in {T \in SUBSET PruneNames : Cardinality(T) <= MaxDirs}}

PruneIdle ==
    /\ ppc = "off"
    /\ pdirs = <<>>
    /\ pprune = <<>>
    /\ presult = <<>>

PruneStart ==
    /\ ppc = "new"
    /\ pdirs \in PruneDirLists
    /\ pprune \in SeqsOf(PruneGlobs, 0, 2)
    /\ presult = <<>>

PruneCall ==
    /\ ppc = "new"
    /\ presult' = __prune(pdirs, GlobFilter(None, Some(pprune)))
    /\ ppc' = "pruned"
    /\ UNCHANGED <<pdirs, pprune>>
    /\ UNCHANGED <<fvars, wvars>>

PruneNext == PruneCall

(***************************************************************************)
(* Paths: os.path.join, os.path.basename, os.path.isabs, os.path.normpath  *)
(* and unix_path, for paths without a drive and without '..'.              *)
(***************************************************************************)
Seps(os) == {os.sep, os.altsep}

\* str.split(sep): the segments between the separators
split(path, sep) ==
    LET cuts == {0, Len(path) + 1} \cup {i \in DOMAIN path : path[i] = sep}
        cut(k) == CHOOSE c \in cuts : Cardinality({x \in cuts : x < c}) = k - 1
    IN  [k \in 1..(Cardinality(cuts) - 1) |-> SubSeq(path, cut(k) + 1, cut(k + 1) - 1)]

\* sep.join(parts), from the part at position i on
RECURSIVE joinFrom(_, _, _)
joinFrom(sep, parts, i) ==
    IF i > Len(parts) THEN <<>>
    ELSE IF i = Len(parts) THEN parts[i]
    ELSE parts[i] \o sep \o joinFrom(sep, parts, i + 1)

\* sep.join(parts)
join(sep, parts) == joinFrom(sep, parts, 1)

isabs(os, path) == path # <<>> /\ path[1] \in Seps(os)

pathjoin(os, top, name) ==
    IF top = <<>> \/ Last(top) \in Seps(os) THEN top \o name
    ELSE top \o <<os.sep>> \o name

basename(os, path) ==
    LET cuts == {i \in DOMAIN path : path[i] \in Seps(os)}
        from == IF cuts = {} THEN 0 ELSE CHOOSE i \in cuts : \A j \in cuts : j <= i
    IN  SubSeq(path, from + 1, Len(path))

RECURSIVE toSep(_, _)
toSep(os, path) ==
    IF path = <<>> THEN <<>>
    ELSE <<IF Head(path) \in Seps(os) THEN os.sep ELSE Head(path)>>
         \o toSep(os, Tail(path))

normpath(os, path) ==
    LET native == toSep(os, path)
        comps == SelectSeq(split(native, os.sep), LAMBDA c : c # <<>> /\ c # <<".">>)
        body == join(<<os.sep>>, comps)
    IN  IF isabs(os, path) THEN <<os.sep>> \o body
        ELSE IF body = <<>> THEN <<".">>
        ELSE body

\* what a function that ends without a return statement returns
PyNone == <<"None">>

unix_path(os, path) ==
    LET absolute == isabs(os, path)
    IN  IF os.pathsep # "/" THEN join(<<"/">>, split(path, os.sep))
        ELSE IF ~absolute THEN <<".", "/">> \o path
        ELSE PyNone

is_project(dirs, files) == \E i \in DOMAIN files : files[i] = PomXml

(***************************************************************************)
(* The file system the walk runs on.  A directory is named by its real     *)
(* path, the sequence of directory names from the root directory down.     *)
(*   dirs  the directories                                                 *)
(*   pom   the directories that hold a file pom.xml                        *)
(*   deny  the directories whose listing fails (os.scandir raises OSError) *)
(*   link  the directory symlinks: the entry at path `at` points to the    *)
(*         directory `to`                                                  *)
(***************************************************************************)
DirNames == {<<"a">>, <<"b">>}

\* the directory trees of at most `nodes` directories
RECURSIVE Shapes(_)
Shapes(nodes) ==
    IF nodes <= 1 THEN {{<<>>}}
    ELSE LET smaller == Shapes(nodes - 1)
         IN  smaller \cup UNION {{S \cup {d \o <<n>>} : d \in S, n \in DirNames} :
                                 S \in smaller}

\* the subsets of S of at most k elements
RECURSIVE SubsetsUpTo(_, _)
SubsetsUpTo(S, k) ==
    IF k = 0 THEN {{}}
    ELSE LET smaller == SubsetsUpTo(S, k - 1)
         IN  smaller \cup {T \cup {x} : T \in smaller, x \in S}

LinkSlots(S) ==
    {[at |-> d \o <<n>>, to |-> t] : d \in S, n \in DirNames, t \in S}

LinkSets(S, k) ==
    {L \in SubsetsUpTo({l \in LinkSlots(S) : l.at \notin S}, k) :
        \A l, m \in L : l.at = m.at => l = m}

FileSystems(nodes, errors, links) ==
    UNION {{[dirs |-> S, pom |-> P, deny |-> D, link |-> L] :
                P \in SUBSET S, D \in SubsetsUpTo(S, errors), L \in LinkSets(S, links)} :
           S \in Shapes(nodes)}

WalkDirs == {<<".">>, <<"r">>}

WalkPrunes == {<<>>, << <<"b">> >>, << <<"?">> >>}

WalkFilters ==
    {GlobFilter(None, None), GlobFilter(Some(<< <<"a">> >>), None),
     GlobFilter(None, Some(<< <<"a">> >>))}

WalkArgs ==
    {[dir |-> d, with_root |-> w, prune |-> p, include |-> f.include, exclude |-> f.exclude] :
        d \in WalkDirs, w \in BOOLEAN, p \in WalkPrunes, f \in WalkFilters}

\* root_dir of __find
root_dir == normpath(platform, args.dir)

\* the prune filter of __find
passing == GlobFilter(None, Some(args.prune))

\* the include / exclude filter of __find
filtering == GlobFilter(args.include, args.exclude)

\* os.walk(root_dir): the walk starts at the root directory
Top == [path |-> <<>>, root |-> root_dir, dir |-> <<>>, hops |-> 0]

\* the entry `name` of the directory top: os.walk builds its path string
\* with os.path.join(top, name), and the file system follows a symlink
Entry(top, name) ==
    LET at == top.dir \o <<name>>
        ls == {l \in fs.link : l.at = at}
    IN  [path |-> top.path \o <<name>>,
         root |-> pathjoin(platform, top.root, name),
         dir  |-> IF ls = {} THEN at ELSE (CHOOSE l \in ls : TRUE).to,
         hops |-> top.hops + (IF ls = {} THEN 0 ELSE 1)]

\* os.scandir(top) succeeds
Listable(top) == top.dir \notin fs.deny

\* the names os.scandir(top) returns
EntryNames(top) ==
    {n \in DirNames :
        top.dir \o <<n>> \in fs.dirs \/ \E l \in fs.link : l.at = top.dir \o <<n>>}

\* entry.is_dir(): false once the platform refuses to follow more symlinks
IsDirEntry(top, n) == Entry(top, n).hops <= MaxLoop

DirEntries(top) == {n \in EntryNames(top) : IsDirEntry(top, n)}

\* nondirs of os.walk
Files(top) ==
    (IF top.dir \in fs.pom THEN <<PomXml>> ELSE <<>>)
    \o (CHOOSE s \in Perms(EntryNames(top) \ DirEntries(top)) : TRUE)

\* line 220: the root directory is passed over unless --with-root is given
IsExcludedRootNever(root) == FALSE

IsExcludedRoot(root) == ~args.with_root /\ root = root_dir

\* line 223
Qualifies(root, dirs, files) ==
    /\ is_project(dirs, files)
    /\ \E name \in {basename(platform, root)} : Call(filtering, name)

\* the onerror callback of line 214 lost
warningDropped(log, top) == log

\* line 214: the onerror callback logs the error
warning(log, top) == Append(log, top)

\* dirs.clear() of line 225 left out
clearNothing(dirs) == dirs

\* line 225: dirs.clear()
clear(dirs) == <<>>

Under(top, dirs) == [i \in 1..Len(dirs) |-> Entry(top, dirs[i])]

Paths(entries) == {entries[i].path : i \in DOMAIN entries}

\* os.walk descending twice into what is left in dirs
DescendTwice(top, dirs) == Under(top, dirs) \o Under(top, dirs) \o Tail(stack)

\* os.walk after the loop body: descend into what is left in dirs, in order
Descend(top, dirs) == Under(top, dirs) \o Tail(stack)

WalkIdle ==
    /\ args = [dir |-> <<".">>, with_root |-> FALSE, prune |-> <<>>,
               include |-> None, exclude |-> None]
    /\ platform = Posix
    /\ fs = [dirs |-> {<<>>}, pom |-> {}, deny |-> {}, link |-> {}]
    /\ pc = "off"
    /\ stack = <<>>
    /\ output = <<>>
    /\ warnings = <<>>
    /\ exitCode = <<>>
    /\ visited = <<>>
    /\ listed = <<>>
    /\ yielded = <<>>
    /\ pushed = {}
    /\ removed = {}

WalkStart ==
    /\ pc = "walk"
    /\ stack = <<Top>>
    /\ output = <<>>
    /\ warnings = <<>>
    /\ exitCode = <<>>
    /\ visited = <<>>
    /\ listed = <<>>
    /\ yielded = <<>>
    /\ pushed = {}
    /\ removed = {}

\* a failed listing that ends the whole walk
ListErrorAbort ==
    /\ pc = "walk" /\ stack # <<>>
    /\ \E top \in {Head(stack)} :
          /\ ~Listable(top)
          /\ warnings' = warning(warnings, top.path)
          /\ stack' = <<>>
    /\ UNCHANGED <<args, platform, fs, pc, output, exitCode, visited, listed, yielded, pushed, removed>>
    /\ UNCHANGED <<fvars, pvars>>

\* os.scandir(top) fails: onerror is called and the directory is left
ListError ==
    /\ pc = "walk" /\ stack # <<>>
    /\ \E top \in {Head(stack)} :
          /\ ~Listable(top)
          /\ warnings' = warning(warnings, top.path)
          /\ stack' = Tail(stack)
    /\ UNCHANGED <<args, platform, fs, pc, output, exitCode, visited, listed, yielded, pushed, removed>>
    /\ UNCHANGED <<fvars, pvars>>

\* lines 220-221: the root directory without --with-root
SkipRoot ==
    /\ pc = "walk" /\ stack # <<>>
    /\ \E top \in {Head(stack)} :
          /\ Listable(top)
          /\ \E root \in {top.root}, dirs \in Perms(DirEntries(top)) :
                /\ IsExcludedRoot(root)
                /\ stack' = Descend(top, dirs)
                /\ pushed' = pushed \cup Paths(Under(top, dirs))
          /\ visited' = Append(visited, top.path)
          /\ listed' = Append(listed, top.dir)
    /\ UNCHANGED <<args, platform, fs, pc, output, warnings, exitCode, yielded, removed>>
    /\ UNCHANGED <<fvars, pvars>>

\* lines 223-226: a project is yielded and its subdirectories are dropped
YieldProject ==
    /\ pc = "walk" /\ stack # <<>>
    /\ \E top \in {Head(stack)} :
          /\ Listable(top)
          /\ \E root \in {top.root}, dirs \in Perms(DirEntries(top)), files \in {Files(top)} :
                /\ ~IsExcludedRoot(root)
                /\ Qualifies(root, dirs, files)
                /\ output' = Append(output, unix_path(platform, root))
                /\ \E left \in {clear(dirs)} :
                      /\ stack' = Descend(top, left)
                      /\ pushed' = pushed \cup Paths(Under(top, left))
          /\ visited' = Append(visited, top.path)
          /\ listed' = Append(listed, top.dir)
          /\ yielded' = Append(yielded, top.path)
    /\ UNCHANGED <<args, platform, fs, pc, warnings, exitCode, removed>>
    /\ UNCHANGED <<fvars, pvars>>

\* line 228: the subdirectories of another directory are pruned
PruneDirs ==
    /\ pc = "walk" /\ stack # <<>>
    /\ \E top \in {Head(stack)} :
          /\ Listable(top)
          /\ \E root \in {top.root}, dirs \in Perms(DirEntries(top)), files \in {Files(top)} :
                /\ ~IsExcludedRoot(root)
                /\ ~Qualifies(root, dirs, files)
                /\ \E left \in {__prune(dirs, passing)} :
                      /\ stack' = Descend(top, left)
                      /\ pushed' = pushed \cup Paths(Under(top, left))
                      /\ removed' = removed \cup (Paths(Under(top, dirs)) \ Paths(Under(top, left)))
          /\ visited' = Append(visited, top.path)
          /\ listed' = Append(listed, top.dir)
    /\ UNCHANGED <<args, platform, fs, pc, output, warnings, exitCode, yielded>>
    /\ UNCHANGED <<fvars, pvars>>

\* the walk is over: __command_find returns EX_OK and Main.run passes it on
Finish ==
    /\ pc = "walk" /\ stack = <<>>
    /\ pc' = "done"
    /\ exitCode' = <<EX_OK>>
    /\ UNCHANGED <<args, platform, fs, stack, output, warnings, visited, listed, yielded, pushed, removed>>
    /\ UNCHANGED <<fvars, pvars>>

\* the find command on a directory tree without symlinks
Init ==
    /\ FilterIdle /\ PruneIdle
    /\ args \in WalkArgs
    /\ platform \in Platforms
    /\ fs \in FileSystems(MaxNodes, MaxErrors, 0)
    /\ WalkStart

Next ==
    \/ ListError
    \/ SkipRoot
    \/ YieldProject
    \/ PruneDirs
    \/ Finish

Spec == Init /\ [][Next]_vars

\* the find command without --dir, --include and --exclude on a POSIX
\* directory tree, or on a directory structure with directory symlinks
LinkInit ==
    /\ FilterIdle /\ PruneIdle
    /\ args \in {a \in WalkArgs : a.dir = <<".">> /\ a.include = None /\ a.exclude = None}
    /\ platform = Posix
    /\ fs \in FileSystems(MaxNodes, MaxErrors, 0)
               \cup FileSystems(MaxLinkNodes, MaxErrors, MaxLinks)
    /\ WalkStart

\* os.walk goes on while a directory is left to list, and __command_find
\* returns when the generator is exhausted
FairSpec == LinkInit /\ [][Next]_vars /\ WF_vars(Next)

\* a GlobFilter applied to a value
FilterInit == FilterStart /\ PruneIdle /\ WalkIdle

FilterSpec == FilterInit /\ [][FilterNext]_vars

\* __prune applied to a list of names
PruneInit == PruneStart /\ FilterIdle /\ WalkIdle

PruneSpec == PruneInit /\ [][PruneNext]_vars

(***************************************************************************)
(* Vocabulary of the properties.                                           *)
(***************************************************************************)
\* value matches at least one pattern of globs
AnyGlob(value, globs) == \E i \in DOMAIN globs : fnmatch(value, globs[i])

\* (include absent or a match) and not (exclude present and a match)
FilterLaw(value, f) ==
    /\ ~f.include.present \/ AnyGlob(value, f.include.globs)
    /\ ~(f.exclude.present /\ AnyGlob(value, f.exclude.globs))

\* the basename of the directory d of a tree
NameOf(d) == IF d = <<>> THEN basename(platform, root_dir) ELSE Last(d)

\* d has the marker file and its basename passes the include / exclude filter
IsProjectDir(d) == d \in fs.pom /\ FilterLaw(NameOf(d), filtering)

Count(s, x) == Cardinality({i \in DOMAIN s : s[i] = x})

StartsWith(s, p) == IsPrefix(p, s)

(***************************************************************************)
(* C1: no yielded path is a proper descendant of another yielded path;     *)
(* once a directory is yielded, no directory below it is visited, listed,  *)
(* left for descent or yielded.                                            *)
(***************************************************************************)
NoNestedProjects ==
    \A i \in DOMAIN yielded :
        /\ \A j \in DOMAIN yielded : ~IsProperPrefix(yielded[i], yielded[j])
        /\ \A j \in DOMAIN visited : ~IsProperPrefix(yielded[i], visited[j])
        /\ \A j \in DOMAIN warnings : ~IsProperPrefix(yielded[i], warnings[j])
        /\ \A j \in DOMAIN stack : ~IsProperPrefix(yielded[i], stack[j].path)
        /\ \A j \in DOMAIN output :
              i # j => ~IsPrefix(output[i] \o <<"/">>, output[j])

\* a yielded project has a project below it that no prune pattern matches
NestedProjectSkipped ==
    /\ pc = "done"
    /\ \E i \in DOMAIN yielded : \E d \in fs.dirs :
          /\ IsProperPrefix(yielded[i], d)
          /\ IsProjectDir(d)
          /\ d \notin fs.deny
          /\ ~AnyGlob(Last(d), args.prune)

(***************************************************************************)
(* C2: a directory other than the root whose name matches a prune pattern  *)
(* is never visited and never yielded.                                     *)
(***************************************************************************)
PrunedNeverVisited ==
    /\ \A i \in DOMAIN visited :
          visited[i] # <<>> => ~AnyGlob(Last(visited[i]), args.prune)
    /\ \A i \in DOMAIN yielded :
          yielded[i] # <<>> => ~AnyGlob(Last(yielded[i]), args.prune)

RootPassedOver ==
    ~args.with_root =>
        /\ \A i \in DOMAIN yielded : yielded[i] # <<>>
        /\ (pc = "done" /\ <<>> \notin fs.deny) =>
              \A c \in fs.dirs :
                  (Len(c) = 1 /\ c \notin fs.deny /\ IsProjectDir(c))
                      => Count(yielded, c) = 1

\* root/{pom.xml, a/pom.xml, b}: the root is a project itself, one child is
\* yielded and the other child is not
RootProjectPassedOver ==
    /\ pc = "done"
    /\ ~args.with_root
    /\ IsProjectDir(<<>>)
    /\ \E c, d \in fs.dirs :
          /\ Len(c) = 1 /\ Len(d) = 1
          /\ yielded = <<c>>
          /\ d \notin fs.pom
          /\ \E i \in DOMAIN visited : visited[i] = d

(***************************************************************************)
(* C5: a failed listing of a directory below the root does not end the     *)
(* walk: the directory is reported once to the warning sink, nothing at or *)
(* below it is visited or yielded, and every directory beside it that was  *)
(* kept for descent is still listed, and yielded if it qualifies.          *)
(***************************************************************************)
ListingFailureSkipsSubtree ==
    pc = "done" =>
        \A d \in pushed :
            d \in fs.deny =>
                /\ exitCode = <<EX_OK>>
                /\ Count(warnings, d) = 1
                /\ \A i \in DOMAIN visited : ~IsPrefix(d, visited[i])
                /\ \A i \in DOMAIN yielded : ~IsPrefix(d, yielded[i])
                /\ \A s \in pushed :
                      (s # d /\ Front(s) = Front(d)) =>
                          /\ Count(visited, s) + Count(warnings, s) = 1
                          /\ (Count(visited, s) = 1 /\ IsProjectDir(s))
                                => Count(yielded, s) = 1

\* a directory with a project at or below it cannot be listed, and the
\* directory beside it is yielded
FailedBesideProject ==
    /\ pc = "done"
    /\ \E d \in fs.deny : \E s \in fs.dirs :
          /\ d # <<>> /\ s # d /\ Front(s) = Front(d)
          /\ warnings = <<d>>
          /\ \E e \in fs.dirs : IsPrefix(d, e) /\ IsProjectDir(e)
          /\ \E i \in DOMAIN yielded : yielded[i] = s

(***************************************************************************)
(* C6 as stated: a root directory that cannot be listed ends the command   *)
(* with a fatal error (Main.run returns EX_SOFTWARE), not a normal return. *)
(***************************************************************************)
RootFailureIsFatal ==
    (pc = "done" /\ <<>> \in fs.deny) => exitCode = <<EX_SOFTWARE>>

(***************************************************************************)
(* C6 as amended: a root directory that cannot be listed is reported once  *)
(* to the warning sink; nothing is visited or yielded and the command      *)
(* returns EX_OK.                                                          *)
(***************************************************************************)
RootFailureIsWarning ==
    <<>> \in fs.deny =>
        /\ visited = <<>> /\ yielded = <<>> /\ output = <<>>
        /\ pc = "done" => (warnings = << <<>> >> /\ exitCode = <<EX_OK>>)

\* the root of a tree with a project in it cannot be listed
RootNotListed ==
    /\ pc = "done"
    /\ <<>> \in fs.deny
    /\ \E d \in fs.dirs : d # <<>> /\ IsProjectDir(d)

(***************************************************************************)
(* C7: every yielded string uses '/' as its only separator and is absolute *)
(* or starts with './'.                                                    *)
(***************************************************************************)
YieldedPathsNormalised ==
    \A i \in DOMAIN output :
        /\ \A k \in DOMAIN output[i] : output[i][k] # "\\"
        /\ \/ isabs(platform, root_dir)
           \/ StartsWith(output[i], <<".", "/">>)

(***************************************************************************)
(* C8 as stated: no directory is visited twice.                            *)
(***************************************************************************)
NoDirectoryVisitedTwice ==
    \A i, j \in DOMAIN visited :
        i # j => listed[i] # listed[j]

NoPathVisitedTwice ==
    \A i, j \in DOMAIN visited : i # j => visited[i] # visited[j]

(***************************************************************************)
(* C8 as amended: the walk visits no path twice and eventually ends; in a  *)
(* structure without directory symlinks no directory is visited twice,     *)
(* while a directory that followed symlinks make reachable by several      *)
(* paths is visited once for each of them.                                 *)
(***************************************************************************)
WalkVisitsOnceAndEnds ==
    /\ [](NoPathVisitedTwice /\ (fs.link = {} => NoDirectoryVisitedTwice))
    /\ <>(pc = "done")

\* a symlink makes the walk visit a directory under two paths
LinkedDirectoryVisitedTwice ==
    /\ pc = "done"
    /\ fs.link # {}
    /\ \E i, j \in DOMAIN visited :
          /\ i # j
          /\ visited[i] # visited[j]
          /\ listed[i] = listed[j]

(***************************************************************************)
(* C9: after __prune(dirs, passing), dirs holds exactly the original names *)
(* that match no prune pattern, in their original order.                   *)
(***************************************************************************)
PruneRemovesAllMatching ==
    ppc = "pruned" =>
        presult = SelectSeq(pdirs, LAMBDA name : ~AnyGlob(name, pprune))

(***************************************************************************)
(* C10: in a walk without listing errors, a directory below the root (or   *)
(* the root itself under with_root) that has the marker file and passes    *)
(* the include / exclude filter is yielded once when the walk has ended,   *)
(* provided that every directory above it is the root without with_root or *)
(* does not qualify, and that no prune pattern matches its name or the     *)
(* name of a directory above it below the root; and __prune never removes  *)
(* a name that matches no prune pattern.                                   *)
(***************************************************************************)
Discoverable(d) ==
    /\ IsProjectDir(d)
    /\ d = <<>> => args.with_root
    /\ ~AnyGlob(NameOf(d), args.prune)
    /\ \A k \in 1..Len(d) : ~AnyGlob(d[k], args.prune)
    /\ \A k \in 0..(Len(d) - 1) :
          LET above == SubSeq(d, 1, k)
          IN  (above = <<>> /\ ~args.with_root) \/ ~IsProjectDir(above)

EveryProjectDiscovered ==
    /\ \A r \in removed : AnyGlob(Last(r), args.prune)
    /\ (pc = "done" /\ fs.deny = {}) =>
          \A d \in fs.dirs : Discoverable(d) => Count(yielded, d) = 1

\* a project below the root is yielded although __prune took the directory
\* beside it
ProjectDiscoveredBesidePruned ==
    /\ pc = "done"
    /\ fs.deny = {}
    /\ \E d \in fs.dirs :
          /\ d # <<>>
          /\ Discoverable(d)
          /\ \E r \in removed : r # d /\ Front(r) = Front(d)

====
